---- MODULE Spec2Model ----
(* git-report: the commit-range report pipeline of src/main.rs.              *)
(* Text is modelled as a sequence of one-character strings, so that the      *)
(* splitting, trimming and prefix tests of the program are computed and not  *)
(* assumed.  An optional value is a sequence of length 0 (None) or 1 (Some). *)
EXTENDS Integers, Sequences, FiniteSets, TLC

VARIABLES
    args,            \* Args: from, to, limit, ai, model, output
    repo,            \* the repository's history, newest first (the VCS side)
    pc,              \* position of main
    err,             \* the error main returned, "none" while it runs
    repo_path,       \* Option<String>
    commits,         \* Vec<Commit> of get_commit_list
    from_commit,     \* Option<&Commit>
    to_commit,       \* Option<&Commit>
    range_commits,   \* Vec<Commit> of get_commits_in_range
    report_content,  \* Option<report>
    file,            \* the output file: [exists, name, content]
    procLog,         \* history: every subprocess invocation and its outcome
    listOut,         \* history: stdout of the listing query of get_commit_list
    rangeOut,        \* history: stdout of the listing query of get_commits_in_range
    selections,      \* history: what the selection collaborator answered
    httpLog,         \* history: every HTTP request sent and its outcome
    stages,          \* history: the stages main has entered, in order
    env              \* what the environment may still do wrong in this run

vars == <<args, repo, pc, err, repo_path, commits, from_commit, to_commit,
          range_commits, report_content, file, procLog, listOut, rangeOut,
          selections, httpLog, stages, env>>

-----------------------------------------------------------------------------
(* Bounds *)

MaxHistory == 3      \* commits in the repository
MaxLimit == 3        \* largest --limit tried
MaxFaults == 1       \* subprocess invocations that go wrong in one run
MaxJunk == 1         \* truncated lines the listing outputs of one run carry
HashLen == 8         \* characters of a full hash (40 in git)

-----------------------------------------------------------------------------
(* Text *)

NL == "\n"
CR == "\r"
SP == " "
TAB == "\t"
PIPE == "|"
Whitespace == {SP, NL, CR, TAB}

None == <<>>
Some(v) == <<v>>
IsSome(o) == Len(o) = 1
Unwrap(o) == o[1]

\* str::split(d): the fields between the delimiters; "" has one empty field.
Split(s, d) ==
    LET at == { i \in 1..Len(s) : s[i] = d }
        \* the position of the k-th delimiter; 0 and Len(s) + 1 bracket the text
        cut(k) == IF k = 0 THEN 0
                  ELSE IF k > Cardinality(at) THEN Len(s) + 1
                  ELSE CHOOSE i \in at : Cardinality({ j \in at : j < i }) = k - 1
    IN [k \in 1..(Cardinality(at) + 1) |-> SubSeq(s, cut(k - 1) + 1, cut(k) - 1)]

StripCR(l) ==
    IF l # <<>> /\ l[Len(l)] = CR THEN SubSeq(l, 1, Len(l) - 1) ELSE l

\* str::lines(): split on "\n", a final empty piece is no line, and a
\* trailing "\r" is removed from each line.
Lines(text) ==
    LET p == Split(text, NL)
        q == IF p[Len(p)] = <<>> THEN SubSeq(p, 1, Len(p) - 1) ELSE p
    IN [i \in 1..Len(q) |-> StripCR(q[i])]

\* [&str]::join(sep)
RECURSIVE Join(_, _)
Join(ls, sep) ==
    IF ls = <<>> THEN <<>>
    ELSE IF Len(ls) = 1 THEN ls[1]
    ELSE ls[1] \o <<sep>> \o Join(Tail(ls), sep)

\* str::trim()
Trim(s) ==
    LET ink == { i \in 1..Len(s) : s[i] \notin Whitespace } IN
    IF ink = {} THEN <<>>
    ELSE SubSeq(s, CHOOSE i \in ink : \A j \in ink : i <= j,
                   CHOOSE i \in ink : \A j \in ink : j <= i)

\* str::starts_with(p): byte-wise, case-sensitive
StartsWith(s, p) ==
    /\ Len(p) <= Len(s)
    /\ SubSeq(s, 1, Len(p)) = p

-----------------------------------------------------------------------------
(* The version-control side: what the git subprocesses print *)

Pad(p) == p \o [i \in 1..(HashLen - Len(p)) |-> "0"]

\* git prints dates with --date=iso as "date time offset", separated by spaces
IsoDate == <<"d", SP, "t", SP, "z">>

\* The commits a repository is built from: the message is the raw message,
\* title first.  Commit k has its hash start with the k-th of HashHeads.
HashHeads == << <<"a", "b">>, <<"a", "a">>, <<"b", "a">>, <<"b", "b">> >>

CommitShapes ==
    << [author |-> <<"n">>, message |-> <<"F", NL>>,
        files |-> << <<"x">> >>],
       [author |-> <<"m">>, message |-> <<"A", NL, NL, "d", NL, "e", NL>>,
        files |-> <<>>],
       [author |-> <<"m">>, message |-> <<"p", PIPE, "q", NL, NL, "g", NL>>,
        files |-> << <<"c", "o", "m", "m", "i", "t", ".", "r", "s">>, <<"y">> >>] >>

RepoCommit(k) ==
    LET shape == CommitShapes[((k - 1) % Len(CommitShapes)) + 1] IN
    [hash |-> Pad(HashHeads[((k - 1) % Len(HashHeads)) + 1]),
     author |-> shape.author, date |-> IsoDate,
     message |-> shape.message, files |-> shape.files]

\* Histories, newest first: the commits picked out of 1..MaxHistory, in order.
RECURSIVE Picked(_, _)
Picked(S, k) ==
    IF k > MaxHistory THEN <<>>
    ELSE (IF k \in S THEN << RepoCommit(k) >> ELSE <<>>) \o Picked(S, k + 1)

Histories == { Picked(S, 1) : S \in SUBSET (1..MaxHistory) }

\* %s: the title line of the message
GitSubject(c) == Lines(c.message)[1]

\* --pretty=format:%H|%an|%ad|%s
GitLogLine(c) ==
    c.hash \o <<PIPE>> \o c.author \o <<PIPE>> \o c.date \o <<PIPE>> \o GitSubject(c)

\* Lines of fewer than four fields, as a truncated or foreign line would be.
JunkLines == { <<>>, <<"a", "b">>, <<"a", PIPE, "b", PIPE, "c">> }

InsertAt(ls, i, l) == SubSeq(ls, 1, i) \o <<l>> \o SubSeq(ls, i + 1, Len(ls))

RECURSIVE WithJunk(_, _)
WithJunk(ls, k) ==
    IF k = 0 THEN { ls }
    ELSE LET prev == WithJunk(ls, k - 1) IN
         prev \cup UNION { { InsertAt(p, i, j) : i \in 0..Len(p), j \in JunkLines } : p \in prev }

\* The stdout the listing query may produce for the commits cs: one line per
\* commit, lines separated by "\n" (format: is a separator, not a terminator),
\* with at most k other lines among them.
GitLogStdouts(cs, k) ==
    { Join(ls, NL) : ls \in WithJunk([i \in 1..Len(cs) |-> GitLogLine(cs[i])], k) }

\* git log -<limit>
GitRecent(limit) ==
    SubSeq(repo, 1, IF limit < Len(repo) THEN limit ELSE Len(repo))

HashIndex(h) ==
    IF \E i \in 1..Len(repo) : repo[i].hash = h
    THEN CHOOSE i \in 1..Len(repo) : repo[i].hash = h
    ELSE 0

\* git log <a>..<b> on a linear history: reachable from b and not from a
GitRange(arg) ==
    LET ends == Split(arg, ".")
        ia == HashIndex(ends[1])
        ib == HashIndex(ends[Len(ends)])
    IN IF ia = 0 \/ ib = 0 \/ ib >= ia THEN <<>> ELSE SubSeq(repo, ib, ia - 1)

\* git log exits non-zero in a repository without commits, and for a range
\* that names a revision the repository does not have
GitLogRuns(arg) ==
    /\ repo # <<>>
    /\ arg # <<>> => LET ends == Split(arg, ".") IN
                     /\ Len(ends) = 3
                     /\ HashIndex(ends[1]) # 0
                     /\ HashIndex(ends[3]) # 0

\* git show --no-patch --format=%B <hash>: the raw message and a newline
GitShowBody(h) == repo[HashIndex(h)].message \o <<NL>>

\* git show --name-only --format= <hash>: one path per line
GitShowFiles(h) ==
    LET fs == repo[HashIndex(h)].files IN
    IF fs = <<>> THEN <<>> ELSE Join(fs, NL) \o <<NL>>

\* How a subprocess invocation can end.
\*   ok     : exit status 0, stdout as above
\*   status : non-zero exit status, nothing on stdout
\*   spawn  : the process could not be started (Command::output is Err)
\*   utf8   : stdout is not valid UTF-8
FaultKinds == {"status", "spawn", "utf8"}

\* the invocations a listing of n commits makes: the listing query and two
\* detail queries per commit
CallsFor(n) == 1 + 2 * n

\* A fault plan names the invocations of one operation that go wrong: at most
\* k of its first `calls` invocations.
RECURSIVE PlansOf(_, _)
PlansOf(k, calls) ==
    IF k <= 0 THEN { {} }
    ELSE LET prev == PlansOf(k - 1, calls) IN
         prev \cup { p \cup { <<i, f>> } : p \in { q \in prev : Cardinality(q) = k - 1 },
                                          i \in 1..calls, f \in FaultKinds }

Plans(k, calls) ==
    { p \in PlansOf(k, calls) : \A e1, e2 \in p : e1[1] = e2[1] => e1 = e2 }

Outcome(plan, pos) ==
    IF \E e \in plan : e[1] = pos
    THEN (CHOOSE e \in plan : e[1] = pos)[2]
    ELSE "ok"

Call(cmd, arg, outcome) == [cmd |-> cmd, arg |-> arg, outcome |-> outcome]

-----------------------------------------------------------------------------
(* Commit History Reader *)

Ok(v, log) == [ok |-> TRUE, val |-> v, log |-> log, e |-> "none"]
Err(e, log) == [ok |-> FALSE, val |-> <<>>, log |-> log, e |-> e]

\* What the program reads from an invocation that did start and decode.
Stdout(outcome, text) == IF outcome = "ok" THEN text ELSE <<>>

\* `Command::output().context(..)?` followed by `String::from_utf8(..)?`:
\* an Err only when the process did not start or its output does not decode.
Readable(outcome) == outcome \notin {"spawn", "utf8"}

\* an invocation naming a revision the repository does not have exits non-zero
Known(h, outcome) == IF outcome = "ok" /\ HashIndex(h) = 0 THEN "status" ELSE outcome

Skip1(ls) == IF ls = <<>> THEN <<>> ELSE Tail(ls)

CommitWord == <<"c", "o", "m", "m", "i", "t">>

\* the filter of files_changed
KeepFileLine(line) == Trim(line) # <<>> /\ ~StartsWith(line, CommitWord)

\* get_commit_details(hash); pos is the number of this operation's next
\* subprocess invocation in the fault plan.
get_commit_details(hash, plan, pos) ==
    LET o1 == Known(hash, Outcome(plan, pos))
        c1 == Call("show-body", hash, o1)
    IN IF ~Readable(o1) THEN Err("HistoryQueryFailed", <<c1>>)
       ELSE
         LET body == Join(Skip1(Lines(Stdout(o1, GitShowBody(hash)))), NL)
             o2 == Known(hash, Outcome(plan, pos + 1))
             c2 == Call("show-files", hash, o2)
         IN IF ~Readable(o2) THEN Err("HistoryQueryFailed", <<c1, c2>>)
            ELSE
              LET files_str == Stdout(o2, GitShowFiles(hash))
                  files_changed == SelectSeq(Lines(files_str), KeepFileLine)
              IN Ok([body |-> body, files_changed |-> files_changed], <<c1, c2>>)

\* DateTime::parse_from_rfc3339 wants "T" between date and time and the
\* offset directly after the time.
IsRfc3339(s) == s = <<"d", "T", "t", "z">>

\* parse_from_rfc3339(date_str).unwrap_or_else(|_| Utc::now().into())
ParseDate(date_str) ==
    IF IsRfc3339(date_str) THEN [at |-> "parsed", text |-> date_str]
    ELSE [at |-> "now", text |-> <<>>]

\* (variant) the loop ends at the first line of fewer than four fields
RECURSIVE ParseLinesUntilShort(_, _, _, _, _)
ParseLinesUntilShort(lines, plan, pos, acc, log) ==
    IF lines = <<>> THEN Ok(acc, log)
    ELSE
      LET parts == Split(Head(lines), PIPE) IN
      IF Len(parts) >= 4
      THEN LET d == get_commit_details(parts[1], plan, pos) IN
           IF ~d.ok THEN Err(d.e, log \o d.log)
           ELSE ParseLinesUntilShort(Tail(lines), plan, pos + 2,
                           Append(acc, [hash |-> parts[1],
                                        author |-> parts[2],
                                        date |-> ParseDate(parts[3]),
                                        subject |-> parts[4],
                                        body |-> d.val.body,
                                        files_changed |-> d.val.files_changed]),
                           log \o d.log)
      ELSE Ok(acc, log)

\* The loop over the lines of the listing output, the same in get_commit_list
\* and in get_commits_in_range.
RECURSIVE ParseLines(_, _, _, _, _)
ParseLines(lines, plan, pos, acc, log) ==
    IF lines = <<>> THEN Ok(acc, log)
    ELSE
      LET parts == Split(Head(lines), PIPE) IN
      IF Len(parts) >= 4
      THEN LET d == get_commit_details(parts[1], plan, pos) IN
           IF ~d.ok THEN Err(d.e, log \o d.log)
           ELSE ParseLines(Tail(lines), plan, pos + 2,
                           Append(acc, [hash |-> parts[1],
                                        author |-> parts[2],
                                        date |-> ParseDate(parts[3]),
                                        subject |-> parts[4],
                                        body |-> d.val.body,
                                        files_changed |-> d.val.files_changed]),
                           log \o d.log)
      ELSE ParseLines(Tail(lines), plan, pos, acc, log)

\* The listing query and the loop: `bail!` on a non-success status.
ReadListing(cmd, arg, out, plan) ==
    LET o == IF GitLogRuns(arg) \/ Outcome(plan, 1) # "ok" THEN Outcome(plan, 1)
             ELSE "status"
        c == Call(cmd, arg, o)
    IN IF o # "ok" THEN Err("HistoryQueryFailed", <<c>>)
       ELSE ParseLines(Lines(out), plan, 2, <<>>, <<c>>)

-----------------------------------------------------------------------------
(* Range Resolver *)

\* (variant) the last match instead of the first
RECURSIVE FindLastByPrefix(_, _)
FindLastByPrefix(cs, r) ==
    IF cs = <<>> THEN None
    ELSE IF StartsWith(cs[Len(cs)].hash, r) THEN Some(cs[Len(cs)])
    ELSE FindLastByPrefix(SubSeq(cs, 1, Len(cs) - 1), r)

\* commits.iter().find(|c| c.hash.starts_with(&r))
RECURSIVE FindByPrefix(_, _)
FindByPrefix(cs, r) ==
    IF cs = <<>> THEN None
    ELSE IF StartsWith(Head(cs).hash, r) THEN Some(Head(cs))
    ELSE FindByPrefix(Tail(cs), r)

FormatDate(d) == IF d.at = "now" THEN <<"now">> ELSE d.text

LabelHashLen == 8

\* the labels select_commit hands to the selection collaborator
SelectOptions(cs) ==
    [i \in 1..Len(cs) |->
        [n |-> i, hash |-> SubSeq(cs[i].hash, 1, LabelHashLen),
         subject |-> cs[i].subject, date |-> FormatDate(cs[i].date)]]

\* What the collaborator can answer: Some index into the labels (0-based in
\* the program), or None for a failure; with no label to show it can only fail.
SelectAnswers(cs) == { None } \cup { Some(i - 1) : i \in DOMAIN SelectOptions(cs) }

\* select_commit(commits, prompt) for the answer sel
select_commit(cs, sel) ==
    IF ~IsSome(sel) THEN Err("SelectionAborted", <<>>)
    ELSE Ok(cs[Unwrap(sel) + 1], <<>>)

\* one endpoint of main: explicit reference if given, interactive otherwise
ResolveEndpoint(cs, ref, sel) ==
    IF IsSome(ref)
    THEN LET f == FindByPrefix(cs, Unwrap(ref)) IN
         IF IsSome(f) THEN Ok(Unwrap(f), <<>>) ELSE Err("CommitNotFound", <<>>)
    ELSE select_commit(cs, sel)

-----------------------------------------------------------------------------
(* Report Synthesizer (plain) *)

\* One line of text: the number n (printed when positive), the literal part
\* and the interpolated text.
Line(n, lit, text) == [n |-> n, lit |-> lit, text |-> text]

RECURSIVE Flatten(_)
Flatten(ss) == IF ss = <<>> THEN <<>> ELSE Head(ss) \o Flatten(Tail(ss))

\* (variant) the blocks are numbered from the enumeration index itself
CommitBlockFromZero(i, commit) ==
    << Line(i, ". ", commit.subject),
       Line(0, "   Hash: ", commit.hash),
       Line(0, "   Author: ", commit.author),
       Line(0, "   Date: ", FormatDate(commit.date)) >>
    \o (IF Trim(commit.body) # <<>>
        THEN << Line(0, "   Description:", <<>>) >>
             \o [k \in 1..Len(Lines(commit.body)) |->
                    Line(0, "     ", Lines(commit.body)[k])]
        ELSE <<>>)
    \o (IF commit.files_changed # <<>>
        THEN << Line(0, "   Files Changed:", <<>>) >>
             \o [k \in 1..Len(commit.files_changed) |->
                    Line(0, "     - ", commit.files_changed[k])]
        ELSE <<>>)
    \o << Line(0, "", <<>>) >>

\* (variant) the section headings are written whatever the commit holds
CommitBlockAllHeadings(i, commit) ==
    << Line(i + 1, ". ", commit.subject),
       Line(0, "   Hash: ", commit.hash),
       Line(0, "   Author: ", commit.author),
       Line(0, "   Date: ", FormatDate(commit.date)) >>
    \o << Line(0, "   Description:", <<>>) >>
    \o [k \in 1..Len(Lines(commit.body)) |-> Line(0, "     ", Lines(commit.body)[k])]
    \o << Line(0, "   Files Changed:", <<>>) >>
    \o [k \in 1..Len(commit.files_changed) |->
           Line(0, "     - ", commit.files_changed[k])]
    \o << Line(0, "", <<>>) >>

\* the block of one commit in the detailed section; i is the 0-based index
CommitBlock(i, commit) ==
    << Line(i + 1, ". ", commit.subject),
       Line(0, "   Hash: ", commit.hash),
       Line(0, "   Author: ", commit.author),
       Line(0, "   Date: ", FormatDate(commit.date)) >>
    \o (IF Trim(commit.body) # <<>>
        THEN << Line(0, "   Description:", <<>>) >>
             \o [k \in 1..Len(Lines(commit.body)) |->
                    Line(0, "     ", Lines(commit.body)[k])]
        ELSE <<>>)
    \o (IF commit.files_changed # <<>>
        THEN << Line(0, "   Files Changed:", <<>>) >>
             \o [k \in 1..Len(commit.files_changed) |->
                    Line(0, "     - ", commit.files_changed[k])]
        ELSE <<>>)
    \o << Line(0, "", <<>>) >>

\* generate_report(repo_path, from_commit, to_commit, commits)
generate_report(path, from, to, cs) ==
    << Line(0, "Git Commit Report", <<>>),
       Line(0, "================", <<>>),
       Line(0, "", <<>>),
       Line(0, "Repository: ", path),
       Line(0, "Generated: ", <<"now">>),
       Line(0, "Commit Range: ", from.hash \o <<" -> ">> \o to.hash),
       Line(Len(cs), "Total Commits: ", <<>>),
       Line(0, "", <<>>),
       Line(0, "Summary", <<>>),
       Line(0, "-------", <<>>),
       Line(0, "From: ", from.subject \o <<" (">> \o from.hash \o <<")">>),
       Line(0, "To: ", to.subject \o <<" (">> \o to.hash \o <<")">>),
       Line(0, "Date Range: ", FormatDate(from.date) \o <<" to ">> \o FormatDate(to.date)),
       Line(0, "", <<>>),
       Line(0, "Detailed Commits", <<>>),
       Line(0, "================", <<>>),
       Line(0, "", <<>>) >>
    \o Flatten([i \in 1..Len(cs) |-> CommitBlock(i - 1, cs[i])])

-----------------------------------------------------------------------------
(* Report Synthesizer (AI-delegated) *)

\* the dossier of one commit in the prompt
CommitDetails(i, commit) ==
    << Line(i + 1, "Commit ", <<>>),
       Line(0, "  Hash: ", commit.hash),
       Line(0, "  Author: ", commit.author),
       Line(0, "  Date: ", FormatDate(commit.date)),
       Line(0, "  Subject: ", commit.subject) >>
    \o (IF Trim(commit.body) # <<>>
        THEN << Line(0, "  Description: ", Trim(commit.body)) >> ELSE <<>>)
    \o (IF commit.files_changed # <<>>
        THEN << Line(0, "  Files Changed:", <<>>) >>
             \o [k \in 1..Len(commit.files_changed) |->
                    Line(0, "    - ", commit.files_changed[k])]
        ELSE <<>>)
    \o << Line(0, "", <<>>) >>

\* the JSON payload of the request
Payload(path, from, to, cs, model) ==
    [model |-> model,
     prompt |-> << Line(0, "Repository: ", path),
                   Line(0, "Commit Range: ", from.hash \o <<" -> ">> \o to.hash),
                   Line(Len(cs), "Total Commits: ", <<>>),
                   Line(0, "Generated: ", <<"now">>),
                   Line(0, "Commit Data:", <<>>) >>
                \o Flatten([i \in 1..Len(cs) |-> CommitDetails(i - 1, cs[i])]),
     stream |-> FALSE,
     options |-> [temperature |-> "0.7", top_p |-> "0.9", max_tokens |-> "4000"]]

\* Texts the endpoint may generate.
AiTexts == { <<"R">>, <<SP, "R", NL, "s", NL>> }

HttpStatuses == {200, 204, 500}

\* StatusCode::is_success
IsSuccess(status) == 200 <= status /\ status <= 299

\* How the exchange with the endpoint can end.
\*   build   : the client could not be built, nothing is sent
\*   connect : the connection fails before a response status arrives
\*   timeout : the 120 s deadline expires before a response status arrives
\*   response: a status arrives; the body of a non-success response is left
\*             unread, that of a success response is then read and is one of
\*       cut      : the connection breaks, or the deadline (which in reqwest
\*                  runs until the body has finished) expires, mid-body
\*       notjson  : not JSON
\*       nofield  : JSON without a "response" member
\*       nonstring: JSON whose "response" member is not a string
\*       text     : JSON whose "response" member is the string `text`
HttpOutcomes ==
    { [kind |-> k, status |-> 0, body |-> "none", text |-> <<>>] :
        k \in {"build", "connect", "timeout"} }
    \cup { [kind |-> "response", status |-> st, body |-> "unread", text |-> <<>>] :
             st \in { x \in HttpStatuses : ~IsSuccess(x) } }
    \cup { [kind |-> "response", status |-> st, body |-> b, text |-> <<>>] :
             st \in { x \in HttpStatuses : IsSuccess(x) },
             b \in {"cut", "notjson", "nofield", "nonstring"} }
    \cup { [kind |-> "response", status |-> st, body |-> "text", text |-> t] :
             st \in { x \in HttpStatuses : IsSuccess(x) }, t \in AiTexts }

\* the requests generate_ai_report sends for the outcome o
RequestsSent(o, payload) ==
    IF o.kind = "build" THEN <<>> ELSE << [payload |-> payload, outcome |-> o] >>

\* generate_ai_report(...) after the payload is built, for the outcome o
generate_ai_report(o, payload) ==
    IF o.kind = "build" THEN Err("HttpClientBuildFailed", RequestsSent(o, payload))
    ELSE IF o.kind \in {"connect", "timeout"}
         THEN Err("AIServiceUnreachable", RequestsSent(o, payload))
    ELSE IF ~IsSuccess(o.status) THEN Err("AIServiceError", RequestsSent(o, payload))
    ELSE IF o.body # "text" THEN Err("AIResponseMalformed", RequestsSent(o, payload))
    ELSE Ok(o.text, RequestsSent(o, payload))

-----------------------------------------------------------------------------
(* main *)

Refs == { <<"a">>, <<"a", "b">>, <<"A">> }

ArgsSet ==
    [from : { None } \cup { Some(r) : r \in Refs },
     to : { None } \cup { Some(r) : r \in Refs },
     limit : 0..MaxLimit,
     ai : BOOLEAN,
     model : { "gemma3" },
     output : { None }]

RepoRoot == <<"/", "r">>

NoFile == [exists |-> FALSE, name |-> <<>>, complete |-> FALSE, content |-> None]

\* A run has either subprocess faults or foreign lines to meet.
Envs == { [faults |-> MaxFaults, junk |-> 0], [faults |-> 0, junk |-> MaxJunk] }

\* What the run has left of its faults and of its foreign lines.
FaultsLeft ==
    env.faults - Cardinality({ i \in DOMAIN procLog : procLog[i].outcome # "ok" })

ShortLines(out) ==
    IF IsSome(out)
    THEN Cardinality({ i \in DOMAIN Lines(Unwrap(out)) :
                         Len(Split(Lines(Unwrap(out))[i], PIPE)) < 4 })
    ELSE 0

JunkLeft == env.junk - ShortLines(listOut)

Init ==
    /\ env \in Envs
    /\ args \in ArgsSet
    /\ repo \in Histories
    /\ pc = "locate"
    /\ err = "none"
    /\ repo_path = None
    /\ commits = <<>>
    /\ from_commit = None
    /\ to_commit = None
    /\ range_commits = <<>>
    /\ report_content = None
    /\ file = NoFile
    /\ procLog = <<>>
    /\ listOut = None
    /\ rangeOut = None
    /\ selections = <<>>
    /\ httpLog = <<>>
    /\ stages = <<>>

\* (variant) an error that is recorded but does not stop the run
QuestionGoesOn(r, next) ==
    [pc |-> next, err |-> IF r.ok THEN "none" ELSE r.e]

\* The `?` of main: go on with the value, or return the error.
Question(r, next) ==
    IF r.ok THEN [pc |-> next, err |-> "none"] ELSE [pc |-> "failed", err |-> r.e]

\* check_git_repository() for the outcome o of `git rev-parse --show-toplevel`
check_git_repository(o) ==
    LET c == Call("rev-parse", <<>>, o) IN
    IF o # "ok" THEN Err("NotARepository", <<c>>)
    ELSE Ok(Trim(RepoRoot \o <<NL>>), <<c>>)

CheckGitRepository ==
    /\ pc = "locate"
    /\ \E o \in {"ok"} \cup FaultKinds :
         LET r == check_git_repository(o)
             q == Question(r, "listRecent")
         IN /\ repo_path' = (IF r.ok THEN Some(r.val) ELSE None)
            /\ procLog' = procLog \o r.log
            /\ pc' = q.pc
            /\ err' = q.err
    /\ stages' = Append(stages, "locate")
    /\ UNCHANGED <<env, args, repo, commits, from_commit, to_commit, range_commits,
                   report_content, file, listOut, rangeOut, selections, httpLog>>

\* get_commit_list(args.limit)
GetCommitList ==
    /\ pc = "listRecent"
    /\ \E out \in GitLogStdouts(GitRecent(args.limit), env.junk), plan \in Plans(env.faults, CallsFor(Len(GitRecent(args.limit)))) :
         LET r == ReadListing("log-recent", <<>>, out, plan)
             q == Question(r, "resolveFrom")
         IN /\ commits' = r.val
            /\ procLog' = procLog \o r.log
            /\ listOut' = (IF r.log[1].outcome = "ok" THEN Some(out) ELSE None)
            /\ pc' = q.pc
            /\ err' = q.err
    /\ stages' = Append(stages, "listRecent")
    /\ UNCHANGED <<env, args, repo, repo_path, from_commit, to_commit, range_commits,
                   report_content, file, rangeOut, selections, httpLog>>

\* let from_commit = ...
ResolveFrom ==
    /\ pc = "resolveFrom"
    /\ \E sel \in (IF IsSome(args.from) THEN { None } ELSE SelectAnswers(commits)) :
         LET r == ResolveEndpoint(commits, args.from, sel)
             q == Question(r, "resolveTo")
         IN /\ from_commit' = (IF r.ok THEN Some(r.val) ELSE None)
            /\ selections' = (IF IsSome(args.from) THEN selections
                              ELSE Append(selections, [who |-> "from", answer |-> sel]))
            /\ pc' = q.pc
            /\ err' = q.err
    /\ stages' = Append(stages, "resolveFrom")
    /\ UNCHANGED <<env, args, repo, repo_path, commits, to_commit, range_commits,
                   report_content, file, procLog, listOut, rangeOut, httpLog>>

\* let to_commit = ...
ResolveTo ==
    /\ pc = "resolveTo"
    /\ \E sel \in (IF IsSome(args.to) THEN { None } ELSE SelectAnswers(commits)) :
         LET r == ResolveEndpoint(commits, args.to, sel)
             q == Question(r, "listRange")
         IN /\ to_commit' = (IF r.ok THEN Some(r.val) ELSE None)
            /\ selections' = (IF IsSome(args.to) THEN selections
                              ELSE Append(selections, [who |-> "to", answer |-> sel]))
            /\ pc' = q.pc
            /\ err' = q.err
    /\ stages' = Append(stages, "resolveTo")
    /\ UNCHANGED <<env, args, repo, repo_path, commits, from_commit, range_commits,
                   report_content, file, procLog, listOut, rangeOut, httpLog>>

\* (variant) the endpoints the other way round
RangeArgSwapped(from_hash, to_hash) == to_hash \o <<".", ".">> \o from_hash

\* format!("{}..{}", from_hash, to_hash)
RangeArg(from_hash, to_hash) == from_hash \o <<".", ".">> \o to_hash

\* get_commits_in_range(&from_commit.hash, &to_commit.hash)
GetCommitsInRange ==
    /\ pc = "listRange"
    /\ LET from_hash == Unwrap(from_commit).hash
           to_hash == Unwrap(to_commit).hash
       IN \E out \in GitLogStdouts(GitRange(RangeArg(from_hash, to_hash)), JunkLeft),
             plan \in Plans(FaultsLeft,
                              CallsFor(Len(GitRange(RangeArg(from_hash, to_hash))))) :
            LET r == ReadListing("log-range", RangeArg(from_hash, to_hash), out, plan)
                q == Question(r, "synthesize")
            IN /\ range_commits' = r.val
               /\ procLog' = procLog \o r.log
               /\ rangeOut' = (IF r.log[1].outcome = "ok" THEN Some(out) ELSE None)
               /\ pc' = q.pc
               /\ err' = q.err
    /\ stages' = Append(stages, "listRange")
    /\ UNCHANGED <<env, args, repo, repo_path, commits, from_commit, to_commit,
                   report_content, file, listOut, selections, httpLog>>

\* the plain branch of `let report_content = ...`
GenerateReport ==
    /\ pc = "synthesize"
    /\ ~args.ai
    /\ report_content' = Some(generate_report(Unwrap(repo_path), Unwrap(from_commit),
                                              Unwrap(to_commit), range_commits))
    /\ pc' = "write"
    /\ stages' = Append(stages, "synthesize")
    /\ UNCHANGED <<env, args, repo, err, repo_path, commits, from_commit, to_commit,
                   range_commits, file, procLog, listOut, rangeOut, selections, httpLog>>

\* the AI branch of `let report_content = ...`
GenerateAiReport ==
    /\ pc = "synthesize"
    /\ args.ai
    /\ \E o \in HttpOutcomes :
         LET r == generate_ai_report(o, Payload(Unwrap(repo_path), Unwrap(from_commit),
                                                Unwrap(to_commit), range_commits,
                                                args.model))
             q == Question(r, "write")
         IN /\ report_content' = (IF r.ok THEN Some(r.val) ELSE None)
            /\ httpLog' = httpLog \o r.log
            /\ pc' = q.pc
            /\ err' = q.err
    /\ stages' = Append(stages, "synthesize")
    /\ UNCHANGED <<env, args, repo, repo_path, commits, from_commit, to_commit,
                   range_commits, file, procLog, listOut, rangeOut, selections>>

\* args.output.unwrap_or_else(...)
OutputFile ==
    IF IsSome(args.output) THEN Unwrap(args.output)
    ELSE <<"git-report", (IF args.ai THEN "-ai" ELSE ""), "-", "now", ".txt">>

\* File::create(&output_file)? and file.write_all(..)? for the outcome w:
\* a failed create leaves no file, a failed write leaves the file cut short.
write_file(w, content) ==
    IF w = "create" THEN NoFile
    ELSE [exists |-> TRUE, name |-> OutputFile, complete |-> (w = "ok"),
          content |-> IF w = "ok" THEN content ELSE None]

WriteFile ==
    /\ pc = "write"
    /\ \E w \in {"ok", "create", "write"} :
         /\ file' = write_file(w, report_content)
         /\ pc' = (IF w = "ok" THEN "done" ELSE "failed")
         /\ err' = (IF w = "ok" THEN "none" ELSE "IoError")
    /\ stages' = Append(stages, "write")
    /\ UNCHANGED <<env, args, repo, repo_path, commits, from_commit, to_commit,
                   range_commits, report_content, procLog, listOut, rangeOut,
                   selections, httpLog>>

Next ==
    \/ CheckGitRepository
    \/ GetCommitList
    \/ ResolveFrom
    \/ ResolveTo
    \/ GetCommitsInRange
    \/ GenerateReport
    \/ GenerateAiReport
    \/ WriteFile

Spec == Init /\ [][Next]_vars

-----------------------------------------------------------------------------
(* Properties *)

Pipeline ==
    <<"locate", "listRecent", "resolveFrom", "resolveTo", "listRange",
      "synthesize", "write">>

LastStage == stages[Len(stages)]

\* the stage has run and has returned a value
Returned(stage) ==
    /\ \E i \in DOMAIN stages : stages[i] = stage
    /\ pc = "failed" => LastStage # stage

\* the stage has run and has returned an error
FailedAt(stage) == pc = "failed" /\ stages # <<>> /\ LastStage = stage

\* the failures of the stages before the write, and where each can arise
StageFailures ==
    [NotARepository |-> {"locate"},
     HistoryQueryFailed |-> {"listRecent", "listRange"},
     CommitNotFound |-> {"resolveFrom", "resolveTo"},
     SelectionAborted |-> {"resolveFrom", "resolveTo"},
     HttpClientBuildFailed |-> {"synthesize"},
     AIServiceUnreachable |-> {"synthesize"},
     AIServiceError |-> {"synthesize"},
     AIResponseMalformed |-> {"synthesize"}]

\* C1: the stages run in pipeline order, each at most once; a stage that
\* fails is the last stage of the run (nothing is enabled after it) and leaves
\* no output file; the output file exists only once a report text has been
\* synthesized, every earlier stage having returned.
C1_FailureStopsRunBeforeWrite ==
    /\ Len(stages) <= Len(Pipeline)
    /\ stages = SubSeq(Pipeline, 1, Len(stages))
    /\ (err = "none") = (pc # "failed")
    /\ pc = "failed" => ~ENABLED Next
    /\ err \in DOMAIN StageFailures =>
          /\ LastStage \in StageFailures[err]
          /\ ~file.exists
          /\ (LastStage = "synthesize" => report_content = None)
    /\ file.exists =>
          /\ IsSome(report_content)
          /\ LastStage = "write"
          /\ err \in {"none", "IoError"}
    /\ pc = "done" => file.exists /\ file.complete /\ file.content = report_content

\* C1 witness: a run that failed in the last stage before the write
C1_Witness ==
    /\ FailedAt("synthesize")
    /\ err = "AIResponseMalformed"
    /\ ~file.exists
    /\ range_commits # <<>>

\* C2: every subprocess invocation that exits with a non-success status
\* makes its listing operation fail with HistoryQueryFailed (the locator's
\* with NotARepository), so no operation returns commits after one.
C2_FailedQueryFailsListing ==
    \A i \in DOMAIN procLog :
        procLog[i].outcome = "status" =>
            /\ pc = "failed"
            /\ err = (IF procLog[i].cmd = "rev-parse" THEN "NotARepository"
                      ELSE "HistoryQueryFailed")
            /\ procLog[i].cmd \in {"log-recent", "show-body", "show-files"}
                  => ~Returned("listRecent")

IsPrefixOf(r, h) == Len(r) <= Len(h) /\ \A i \in 1..Len(r) : h[i] = r[i]

Matches(r) == { i \in DOMAIN commits : IsPrefixOf(r, commits[i].hash) }

Least(S) == CHOOSE i \in S : \A j \in S : i <= j

\* the endpoint resolved from the explicit reference ref by a stage that ran
ExplicitOutcome(stage, ref, endpoint) ==
    (IsSome(ref) /\ \E i \in DOMAIN stages : stages[i] = stage) =>
        IF Matches(Unwrap(ref)) = {}
        THEN /\ endpoint = None
             /\ FailedAt(stage)
             /\ err = "CommitNotFound"
        ELSE /\ endpoint = Some(commits[Least(Matches(Unwrap(ref)))])
             /\ Returned(stage)

\* C3: an explicit reference resolves to the entry of least index whose
\* hash starts with it, and fails with CommitNotFound when there is none.
C3_ExplicitResolution ==
    /\ ExplicitOutcome("resolveFrom", args.from, from_commit)
    /\ ExplicitOutcome("resolveTo", args.to, to_commit)
    /\ \A e \in {from_commit, to_commit} :
          IsSome(e) => \E i \in DOMAIN commits : commits[i] = Unwrap(e)

\* C3 witness: a reference that several hashes start with has been resolved,
\* and one differing only in case was refused.
C3_Witness ==
    /\ IsSome(args.from)
    /\ Cardinality(Matches(Unwrap(args.from))) >= 2
    /\ IsSome(from_commit)
    /\ args.to = Some(<<"A">>)
    /\ FailedAt("resolveTo")

\* the commit of the repository that has the hash h
RepoOf(h) == repo[HashIndex(h)]

AllCallsOk == \A i \in DOMAIN procLog : procLog[i].outcome = "ok"

\* the text of a message after its first line
AfterFirstLine(message) ==
    LET nls == { i \in 1..Len(message) : message[i] = NL } IN
    IF nls = {} THEN <<>> ELSE SubSeq(message, Least(nls) + 1, Len(message))

\* C4: with every query succeeding, each commit read by get_commit_list has
\* the hash, author and subject of the repository's commit unchanged, and as
\* body the commit's message without its first line.
C4_ParsedFieldsRoundTrip ==
    (Returned("listRecent") /\ AllCallsOk) =>
        \A k \in DOMAIN commits :
            /\ HashIndex(commits[k].hash) # 0
            /\ commits[k].author = RepoOf(commits[k].hash).author
            /\ commits[k].subject = GitSubject(RepoOf(commits[k].hash))
            /\ commits[k].body = AfterFirstLine(RepoOf(commits[k].hash).message)

\* the lines of a listing output that have at least four fields
FullLines(out) ==
    SelectSeq(Lines(out), LAMBDA l : Cardinality({ i \in DOMAIN l : l[i] = PIPE }) >= 3)

\* one commit per full line, in the order of the lines
OnePerFullLine(cs, out) ==
    LET full == FullLines(Unwrap(out)) IN
    /\ Len(cs) = Len(full)
    /\ \A k \in DOMAIN cs :
          /\ IsPrefixOf(cs[k].hash \o <<PIPE>> \o cs[k].author \o <<PIPE>>, full[k])
          /\ cs[k].date.at \in {"now", "parsed"}

\* C5: a listing that returns has read exactly one commit per line of at
\* least four fields, in line order, whatever shorter lines stand among them
\* and whether or not the dates parse; this holds for both listings.
C5_ShortLinesDropped ==
    /\ Returned("listRecent") => IsSome(listOut) /\ OnePerFullLine(commits, listOut)
    /\ Returned("listRange") => IsSome(rangeOut) /\ OnePerFullLine(range_commits, rangeOut)

\* C5 witness: both listings returned commits, one of them from an output
\* with a short line ahead of a full line, and no date parsed.
C5_Witness ==
    /\ Returned("listRange")
    /\ Len(commits) >= 2
    /\ range_commits # <<>>
    /\ ShortLines(listOut) + ShortLines(rangeOut) >= 1
    /\ \E out \in {listOut, rangeOut} :
          /\ IsSome(out)
          /\ Lines(Unwrap(out)) # <<>>
          /\ Cardinality({ i \in DOMAIN Lines(Unwrap(out))[1] :
                             Lines(Unwrap(out))[1][i] = PIPE }) < 3
    /\ \A k \in DOMAIN commits : commits[k].date.at = "now"

\* the plain report of a run that wrote one
PlainReport == Unwrap(report_content)

HasPlainReport == ~args.ai /\ IsSome(report_content)

\* where the numbered lines of the report stand, in order
ItemAt(k) ==
    LET at == { i \in DOMAIN PlainReport : PlainReport[i].lit = ". " } IN
    CHOOSE i \in at : Cardinality({ j \in at : j < i }) = k - 1

ItemCount == Cardinality({ i \in DOMAIN PlainReport : PlainReport[i].lit = ". " })

\* the lines of the k-th numbered block: from its numbered line up to the next
BlockOf(k) ==
    SubSeq(PlainReport, ItemAt(k),
           IF k < ItemCount THEN ItemAt(k + 1) - 1 ELSE Len(PlainReport))

TextsOf(block, lit) ==
    LET ls == SelectSeq(block, LAMBDA l : l.lit = lit) IN
    [i \in DOMAIN ls |-> ls[i].text]

TotalLine ==
    PlainReport[CHOOSE i \in DOMAIN PlainReport : PlainReport[i].lit = "Total Commits: "]

\* C6: the plain report has one numbered block per commit of the range, the
\* k-th numbered k and carrying the subject, hash and author of the k-th
\* commit, and its Total Commits line gives the number of blocks.
C6_BlocksFollowRangeOrder ==
    HasPlainReport =>
        /\ ItemCount = Len(range_commits)
        /\ TotalLine.n = ItemCount
        /\ \A k \in DOMAIN range_commits :
              /\ BlockOf(k)[1].n = k
              /\ BlockOf(k)[1].text = range_commits[k].subject
              /\ TextsOf(BlockOf(k), "   Hash: ") = << range_commits[k].hash >>
              /\ TextsOf(BlockOf(k), "   Author: ") = << range_commits[k].author >>

\* C6 witness: a plain report of two commits was written
C6_Witness ==
    /\ pc = "done"
    /\ HasPlainReport
    /\ Len(range_commits) >= 2
    /\ range_commits[1].subject # range_commits[2].subject

NonBlank(text) == \E i \in DOMAIN text : text[i] \notin Whitespace

\* C7: a block has a Description heading exactly when the commit's body is
\* not blank and a Files Changed heading exactly when it has changed files;
\* its bullets are the changed files, each once, in their order.
C7_OptionalSections ==
    HasPlainReport =>
        \A k \in DOMAIN range_commits :
            /\ Len(TextsOf(BlockOf(k), "   Description:"))
                 = (IF NonBlank(range_commits[k].body) THEN 1 ELSE 0)
            /\ Len(TextsOf(BlockOf(k), "   Files Changed:"))
                 = (IF range_commits[k].files_changed # <<>> THEN 1 ELSE 0)
            /\ TextsOf(BlockOf(k), "     - ") = range_commits[k].files_changed
            /\ ~NonBlank(range_commits[k].body) => TextsOf(BlockOf(k), "     ") = <<>>

\* C7 witness: a written plain report with a commit that has a body and no
\* files and a commit that has files and no body
C7_Witness ==
    /\ pc = "done"
    /\ HasPlainReport
    /\ \E k \in DOMAIN range_commits :
          NonBlank(range_commits[k].body) /\ range_commits[k].files_changed = <<>>
    /\ \E k \in DOMAIN range_commits :
          ~NonBlank(range_commits[k].body) /\ range_commits[k].files_changed # <<>>

\* the exchange with the endpoint failed in transport: no connection, the
\* deadline expired, or the transfer of the awaited body broke off
TransportFailure(o) ==
    \/ o.kind \in {"connect", "timeout"}
    \/ o.kind = "response" /\ IsSuccess(o.status) /\ o.body = "cut"

\* C8: at most one request is sent; a connection failure or timeout gives
\* AIServiceUnreachable, a non-success status AIServiceError, a response
\* without a text field AIResponseMalformed, each with no report text; a
\* success status with a text field gives exactly that text.
C8_SingleRequestOutcome ==
    /\ Len(httpLog) <= 1
    /\ \A i \in DOMAIN httpLog :
          LET o == httpLog[i].outcome IN
          /\ TransportFailure(o) => err = "AIServiceUnreachable" /\ report_content = None
          /\ (o.kind = "response" /\ ~IsSuccess(o.status))
                => err = "AIServiceError" /\ report_content = None
          /\ (o.kind = "response" /\ IsSuccess(o.status)
                /\ o.body \in {"notjson", "nofield", "nonstring"})
                => err = "AIResponseMalformed" /\ report_content = None
          /\ (o.kind = "response" /\ IsSuccess(o.status) /\ o.body = "text")
                => report_content = Some(o.text)

\* C9: with every query succeeding, the changed files of each commit read
\* are the paths the repository reports for it, all of them and in order.
C9_ChangedFilesAsReported ==
    (Returned("listRecent") /\ AllCallsOk) =>
        \A k \in DOMAIN commits :
            commits[k].files_changed = RepoOf(commits[k].hash).files

\* what the selection collaborator answered for the endpoint who
AnswersFor(who) ==
    LET ls == SelectSeq(selections, LAMBDA x : x.who = who) IN
    [i \in DOMAIN ls |-> ls[i].answer]

\* the endpoint a stage that ran made of its reference or of its selection,
\* with nothing but the reference or the selection deciding the outcome
EndpointOutcome(stage, who, ref, endpoint) ==
    (\E i \in DOMAIN stages : stages[i] = stage) =>
        /\ Len(AnswersFor(who)) = (IF IsSome(ref) THEN 0 ELSE 1)
        /\ FailedAt(stage) =
              (IF IsSome(ref) THEN Matches(Unwrap(ref)) = {}
               ELSE AnswersFor(who)[1] = None)
        /\ Returned(stage) =>
              endpoint = (IF IsSome(ref) THEN Some(commits[Least(Matches(Unwrap(ref)))])
                          ELSE Some(commits[Unwrap(AnswersFor(who)[1]) + 1]))

RangeCalls == { i \in DOMAIN procLog : procLog[i].cmd = "log-range" }

\* C10: `from` is resolved before `to` and `to` is not attempted when `from`
\* fails; each endpoint is decided by its own reference or selection alone,
\* so any commit of the list can follow any other, the same one included;
\* the range query is issued once, after both, as fromHash..toHash with the
\* full hashes and the endpoints as resolved; with the same commit for both
\* the range is empty and the report counts zero commits.
C10_RangeResolution ==
    /\ AnswersFor("to") # <<>> => IsSome(from_commit)
    /\ ~Returned("resolveFrom") => to_commit = None /\ AnswersFor("to") = <<>>
    /\ EndpointOutcome("resolveFrom", "from", args.from, from_commit)
    /\ EndpointOutcome("resolveTo", "to", args.to, to_commit)
    /\ pc = "resolveTo" =>
          \A j \in DOMAIN commits :
              (IF IsSome(args.to) THEN Matches(Unwrap(args.to)) # {}
                                       /\ j = Least(Matches(Unwrap(args.to)))
               ELSE TRUE)
              => ENABLED (ResolveTo /\ pc' = "listRange" /\ to_commit' = Some(commits[j]))
    /\ Cardinality(RangeCalls) = (IF \E i \in DOMAIN stages : stages[i] = "listRange"
                                  THEN 1 ELSE 0)
    /\ \A i \in RangeCalls :
          /\ Returned("resolveFrom") /\ Returned("resolveTo")
          /\ Len(Unwrap(from_commit).hash) = HashLen
          /\ Len(Unwrap(to_commit).hash) = HashLen
          /\ procLog[i].arg
               = Unwrap(from_commit).hash \o <<".", ".">> \o Unwrap(to_commit).hash
    /\ (Returned("listRange") /\ from_commit = to_commit) => range_commits = <<>>
    /\ (HasPlainReport /\ from_commit = to_commit) => ItemCount = 0 /\ TotalLine.n = 0
    /\ (pc = "synthesize" /\ ~args.ai) => ENABLED GenerateReport

\* C10 witness: the same commit was selected twice, not the newest, and the
\* run completed with a report of zero commits
C10_Witness ==
    /\ pc = "done"
    /\ args.from = None /\ args.to = None
    /\ from_commit = to_commit
    /\ Unwrap(from_commit) # commits[1]
    /\ range_commits = <<>>
    /\ HasPlainReport
    /\ TotalLine.n = 0

====
